---- MODULE Spec2Model ----
(***************************************************************************)
(* Model of the pitwall telemetry Driver (libs/pitwall/src/driver.rs), the *)
(* replay Connection facade built on it (connection/replay.rs) and the     *)
(* validation phase of the FrameAdapter derive (pitwall-derive/src/lib.rs).*)
(*                                                                         *)
(* The reader task, the opening caller, the subscribers' streams and the   *)
(* detached session parse tasks are separate processes; every action is    *)
(* one step between two suspension points of the code.                     *)
(***************************************************************************)
EXTENDS Integers, Sequences, FiniteSets, TLC

(***************************************************************************)
(* Bounds of the model.                                                    *)
(***************************************************************************)
\* number of packets the provider hands out before it can only end or fail
MaxFrames == 3
\* session versions are drawn from 1..MaxVersion
MaxVersion == 2
\* number of subscribe() calls made on the connection
NumSubs == 2
\* FRAME_BUFFER_CAPACITY is 256 in driver.rs:13; the model scales the ring
\* down so that a stalled subscriber is overrun within MaxFrames packets
FRAME_BUFFER_CAPACITY == 1

(***************************************************************************)
(* Program constants.                                                      *)
(***************************************************************************)
MAX_ERRORS == 10

\* tick of the first record of the source
FirstTick == 100

\* the wall clock runs from 0 to MaxTime, ClockHz units to the second
MaxTime == 3
ClockHz == 4
\* the capped frequency a throttled subscription asks for
CapHz == 2

\* Option::None for last_session_version / current_frame / current_session
None == -1

\* recorded file read by the accelerated replay provider
MaxFileFrames == 3
\* calls made on a provider after it reported the end of the file
MaxExtraCalls == 2
\* tick rate recorded in the file
TickRateHz == 60
\* `speed.clamp(0.1, 100.0)`, in tenths
SPEED_MIN_TENTHS == 1
SPEED_MAX_TENTHS == 1000
\* microseconds per second
MICROS == 1000000

\* lap handler: telemetry frames, lap numbers and sessions it is given
MaxLapFrames == 5
MaxLap == 3
MaxSessionStarts == 2

\* braking detection: frames of the analysed lap, and the time between two
\* frames in milliseconds
MaxBrakeFrames == 6
FrameStepMs == 500

\* collector: frames it collects, and the Uuids a run can draw
MaxCollected == 1
NumSessionIds == 2
SessionIds == 1..NumSessionIds

\* event bus: capacity of the broadcast channel (1000 by default), events
\* published, publishers, handlers and shutdown() calls
BUS_CHANNEL_CAPACITY == 2
MaxEvents == 4
NumPublishers == 2
NumHandlers == 2
MaxShutdowns == 2

\* value of the #[missing = "..."] expression of the WithDefault fields
MissingValue == 50
\* <T as Default>::default() of the numeric field types
TypeDefaultValue == 0

Versions == 1..MaxVersion
Subs == 1..NumSubs
Publishers == 1..NumPublishers
Handlers == 1..NumHandlers

\* One FramePacket: the tick and the session_version it carries.
Packet(t, v) == [tick |-> t, session_version |-> v]
NoPacket == [tick |-> None, session_version |-> None]

(***************************************************************************)
(* tokio::sync::broadcast, as the driver and the connection use it.        *)
(***************************************************************************)
RECURSIVE NextPowerOfTwo(_, _)
NextPowerOfTwo(n, p) == IF p >= n THEN p ELSE NextPowerOfTwo(n, 2 * p)

\* broadcast::channel(capacity) rounds the ring up to a power of two
BufferLen == NextPowerOfTwo(FRAME_BUFFER_CAPACITY, 1)

\* Sender::send with a full ring overwrites the oldest slot; with no
\* receiver alive it returns Err and stores nothing.  The log keeps every
\* stored value, the ring is its last BufferLen entries.
BroadcastSend_DropNewest(log, pkt, rxCount) ==
    IF rxCount = 0 \/ Len(log) >= BufferLen THEN log ELSE Append(log, pkt)

BroadcastSend(log, pkt, rxCount) ==
    IF rxCount = 0 THEN log ELSE Append(log, pkt)

\* position of the oldest value still held by the ring
OldestRetained(tail) == IF tail > BufferLen THEN tail - BufferLen ELSE 0

\* Receiver::recv when the slot at `nxt` was overwritten: the receiver is
\* moved to the oldest retained value and Lagged(missed) is returned
LagMissed_OffByOne(nxt, tail) == OldestRetained(tail) - nxt + 1

LagMissed(nxt, tail) == OldestRetained(tail) - nxt

LagResume_AtTail(nxt, tail) == tail

LagResume(nxt, tail) == OldestRetained(tail)

\* Receiver::recv when the slot at `nxt` holds the expected value
RecvAdvance_Stay(nxt) == nxt

RecvAdvance(nxt) == nxt + 1

\* every subscribe() call owns its receiver (`self.frame_tx.subscribe()`):
\* a receive moves the cursor of that subscription alone
RecvCursor_Shared(cursors, s) ==
    [t \in DOMAIN cursors |->
        IF cursors[t] = cursors[s] THEN RecvAdvance(cursors[t]) ELSE cursors[t]]

RecvCursor(cursors, s) == [cursors EXCEPT ![s] = RecvAdvance(@)]

(***************************************************************************)
(* FrameAdapter validation phase (derive macro).                           *)
(***************************************************************************)
\* VariableSchema of the connection: name -> RawVariableInfo
Schema ==
    [n \in {"Speed", "Gear"} |->
        IF n = "Speed" THEN [offset |-> 0, data_type |-> "f32", count |-> 1]
                       ELSE [offset |-> 4, data_type |-> "i32", count |-> 1]]

\* a declared field: its strategy, its variable, its declared Rust type, the
\* value of its #[missing] expression and, for a Calculated field, the
\* telemetry name its expression refers to
TypedField(strategy, name, ty) ==
    [strategy |-> strategy, field_name |-> name, field_type |-> ty,
     default_expr |-> MissingValue]

Field(strategy, name) == TypedField(strategy, name, "f32")

\* consumer types a caller may subscribe with (declared fields, in order)
ConsumerTypes ==
    [ CarData    |-> << Field("Critical", "Speed"), Field("Optional", "Temp") >>,
      NeedsTemp  |-> << Field("Critical", "Speed"), Field("Critical", "Temp") >> ]

TypeNames == DOMAIN ConsumerTypes

\* consumer types that exercise every field strategy: a variable that is
\* absent (Temp), one whose on-wire type differs from the declared one
\* (Gear declared f32, Speed declared i32), and a Calculated expression that
\* names a telemetry variable
AdapterTypes ==
    [ Lenient   |-> << TypedField("Critical", "Speed", "f32"),
                       TypedField("Optional", "Temp", "f32"),
                       TypedField("Optional", "Gear", "f32"),
                       TypedField("WithDefault", "Gear", "f32"),
                       TypedField("TypeDefault", "Gear", "f32") >>,
      Plain     |-> << TypedField("TypeDefault", "Temp", "f32"),
                       TypedField("WithDefault", "Temp", "f32"),
                       TypedField("Skipped", "", "f32"),
                       TypedField("Optional", "Gear", "i32") >>,
      Derived   |-> << TypedField("TypeDefault", "Speed", "f32"),
                       TypedField("Calculated", "Speed", "f32") >>,
      Strict    |-> << TypedField("Critical", "Speed", "i32"),
                       TypedField("Optional", "Gear", "i32") >> ]

AdapterTypeNames == DOMAIN AdapterTypes

DeclaredFields(typeName) ==
    IF typeName \in DOMAIN ConsumerTypes THEN ConsumerTypes[typeName]
    ELSE IF typeName \in DOMAIN AdapterTypes THEN AdapterTypes[typeName]
    ELSE << >>

\* Option<VariableInfo>::None of a variable the schema does not hold
NoVariable == [offset |-> None, data_type |-> "none", count |-> 0]

get_variable(name) == IF name \in DOMAIN Schema THEN Schema[name] ELSE NoVariable

\* one FieldExtraction entry per declared field
PlanItem(f) ==
    CASE f.strategy = "Critical" ->
            [kind |-> "Required", name |-> f.field_name,
             var_info |-> get_variable(f.field_name)]
      [] f.strategy = "Optional" ->
            [kind |-> "Optional", name |-> f.field_name,
             var_info |-> get_variable(f.field_name)]
      [] f.strategy \in {"WithDefault", "TypeDefault"} ->
            [kind |-> "WithDefault", name |-> f.field_name,
             var_info |-> get_variable(f.field_name)]
      [] f.strategy = "Calculated" ->
            [kind |-> "Calculated", name |-> f.field_name, var_info |-> NoVariable]
      [] OTHER ->
            [kind |-> "Skipped", name |-> f.field_name, var_info |-> NoVariable]

ValidationErr == [ok |-> FALSE, plan |-> << >>]

\* validate_schema: a Critical field whose variable is missing returns Err,
\* otherwise the ordered extraction plan
\* the plan built in the reverse of the declaration order
validate_schema_Reversed(fields) ==
    IF \E i \in DOMAIN fields :
            /\ fields[i].strategy = "Critical"
            /\ fields[i].field_name \notin DOMAIN Schema
    THEN ValidationErr
    ELSE [ok |-> TRUE,
          plan |-> [i \in DOMAIN fields |-> PlanItem(fields[Len(fields) + 1 - i])]]

validate_schema_NoCheck(fields) ==
    [ok |-> TRUE, plan |-> [i \in DOMAIN fields |-> PlanItem(fields[i])]]

validate_schema(fields) ==
    IF \E i \in DOMAIN fields :
            /\ fields[i].strategy = "Critical"
            /\ fields[i].field_name \notin DOMAIN Schema
    THEN ValidationErr
    ELSE [ok |-> TRUE, plan |-> [i \in DOMAIN fields |-> PlanItem(fields[i])]]

\* subscribe(): `.expect("Schema validation failed")` on the validation
SubscribeOutcome(validation) == IF validation.ok THEN "stream" ELSE "panicked"

(***************************************************************************)
(* FrameAdapter extraction phase (derive macro): adapt().                  *)
(***************************************************************************)
\* packet.data: the sample's bytes, read at a variable's offset
FrameData(tick) == [o \in {0, 4} |-> IF o = 0 THEN tick ELSE tick % 7]

\* <T as VarData>::from_bytes(&data, var_info): Err when the on-wire type is
\* not the declared one
from_bytes(data, var_info, ty) ==
    IF var_info.data_type = ty THEN [ok |-> TRUE, value |-> data[var_info.offset]]
                               ELSE [ok |-> FALSE, value |-> None]

\* validation.extraction_plan.get(index)
PlanGet(plan, i) ==
    IF i \in DOMAIN plan THEN plan[i]
                         ELSE [kind |-> "Absent", name |-> "", var_info |-> NoVariable]

Decoded(v) == [fault |-> FALSE, value |-> v, mismatch |-> FALSE, lookups |-> 0]
Mismatched(v) == [fault |-> FALSE, value |-> v, mismatch |-> TRUE, lookups |-> 0]
Fault == [fault |-> TRUE, value |-> None, mismatch |-> FALSE, lookups |-> 0]

\* generate_critical_assignment
CriticalAssignment(f, entry, data) ==
    IF entry.kind = "Required"
    THEN LET r == from_bytes(data, entry.var_info, f.field_type)
         IN  IF r.ok THEN Decoded(r.value) ELSE Fault
    ELSE Fault

\* generate_optional_assignment
OptionalAssignment_FaultOnAbsent(f, entry, data) ==
    IF entry.kind = "Optional" /\ entry.var_info # NoVariable
    THEN LET r == from_bytes(data, entry.var_info, f.field_type)
         IN  IF r.ok THEN Decoded(r.value) ELSE Mismatched(None)
    ELSE Fault

OptionalAssignment(f, entry, data) ==
    IF entry.kind = "Optional" /\ entry.var_info # NoVariable
    THEN LET r == from_bytes(data, entry.var_info, f.field_type)
         IN  IF r.ok THEN Decoded(r.value) ELSE Mismatched(None)
    ELSE Decoded(None)

\* generate_with_default_assignment / generate_type_default_assignment
DefaultAssignment(f, entry, data, fallback) ==
    IF entry.kind = "WithDefault" /\ entry.var_info # NoVariable
    THEN LET r == from_bytes(data, entry.var_info, f.field_type)
         IN  IF r.ok THEN Decoded(r.value) ELSE Mismatched(fallback)
    ELSE Decoded(fallback)

\* validation.fetch_or_default::<T>(packet, "name"), the call a Calculated
\* expression is rewritten to: the entry is found by its name
fetch_or_default(plan, data, name, ty) ==
    LET found == {i \in DOMAIN plan :
                     plan[i].kind \in {"Required", "Optional", "WithDefault"}
                     /\ plan[i].name = name /\ plan[i].var_info # NoVariable}
    IN  IF found = {} THEN TypeDefaultValue
        ELSE LET entry == plan[CHOOSE i \in found : \A j \in found : i <= j]
                 r == from_bytes(data, entry.var_info, ty)
             IN  IF r.ok THEN r.value ELSE TypeDefaultValue

\* CalculatedExprFolder::fold_expr: every identifier of the expression
\* becomes one fetch_or_default call by name
CalculatedAssignment(f, plan, data) ==
    [fault |-> FALSE,
     value |-> fetch_or_default(plan, data, f.field_name, f.field_type),
     mismatch |-> FALSE, lookups |-> 1]

\* generate_extraction_phase: one assignment per declared field
Assignment(f, i, plan, data) ==
    CASE f.strategy = "Critical" -> CriticalAssignment(f, PlanGet(plan, i), data)
      [] f.strategy = "Optional" -> OptionalAssignment(f, PlanGet(plan, i), data)
      [] f.strategy = "WithDefault" ->
            DefaultAssignment(f, PlanGet(plan, i), data, f.default_expr)
      [] f.strategy = "TypeDefault" ->
            DefaultAssignment(f, PlanGet(plan, i), data, TypeDefaultValue)
      [] f.strategy = "Calculated" -> CalculatedAssignment(f, plan, data)
      [] OTHER -> Decoded(TypeDefaultValue)

\* adapt(packet, validation): the decoded instance, or a panic
adapt(tick, plan, fields) ==
    LET a == [i \in DOMAIN fields |-> Assignment(fields[i], i, plan, FrameData(tick))]
    IN  [fault |-> \E i \in DOMAIN a : a[i].fault,
         values |-> [i \in DOMAIN a |-> a[i].value],
         mismatches |-> {i \in DOMAIN a : a[i].mismatch},
         lookups |-> Cardinality({i \in DOMAIN a : a[i].lookups > 0})]

\* the elements of a finite set in some fixed order
RECURSIVE SetToSeq(_)
SetToSeq(S) ==
    IF S = {} THEN << >>
    ELSE LET x == CHOOSE y \in S : TRUE IN << x >> \o SetToSeq(S \ {x})

\* `static WARNED: Once` of a field's assignment: call_once runs the warning
\* the first time only
WarnOnce_Always(done, keys) == keys

WarnOnce(done, keys) == keys \ done

(***************************************************************************)
(* AcceleratedReplayProvider: speed, pacing and the file cursor.           *)
(***************************************************************************)
\* `speed.clamp(0.1, 100.0)` without its upper bound
ClampSpeed_NoUpper(s) == IF s < SPEED_MIN_TENTHS THEN SPEED_MIN_TENTHS ELSE s

ClampSpeed(s) ==
    IF s < SPEED_MIN_TENTHS THEN SPEED_MIN_TENTHS
    ELSE IF s > SPEED_MAX_TENTHS THEN SPEED_MAX_TENTHS
    ELSE s

\* `Duration::from_secs_f64(1.0 / (tick_rate * speed))`, speed in tenths
FrameInterval(tick_rate, s) == (10 * MICROS) \div (tick_rate * s)

\* `self.reader.current_frame() >= total_frames`, one frame too early
AtEnd_Early(current, total) == current + 1 >= total

AtEnd(current, total) == current >= total

\* IbtReader::read_next_frame: the frame at the cursor, None past the end
read_next_frame(current, total) == IF current < total THEN current + 1 ELSE None

\* Interval::tick(): completes at the deadline, or at once when it has passed
TickCompletes(due, clock) == IF clock < due THEN due ELSE clock

(***************************************************************************)
(* EventBus: the ring of the broadcast channel as the loop's receiver sees *)
(* it.                                                                     *)
(***************************************************************************)
BusBufferLen == NextPowerOfTwo(BUS_CHANNEL_CAPACITY, 1)

BusOldestRetained(tail) == IF tail > BusBufferLen THEN tail - BusBufferLen ELSE 0

\* join_all: every handler future is driven to completion, whatever the
\* others return
HandlersRun_UntilFirstError(handlers, failing) ==
    {h \in handlers : \A f \in failing : h <= f}

HandlersRun(handlers, failing) == handlers

\* the Err of a handler is logged inside its future; the loop goes on
AfterDispatch(failing) == "select"

\* the handlers that return Err in one dispatch: none, or the first one
FailingSets == {{}, {1}}

\* Notify::notify_waiters(): wakes the Notified futures that exist now and
\* stores no permit
NotifyWaiters(waiting, woken) == IF waiting THEN TRUE ELSE woken

(***************************************************************************)
(* LapHandler: lap tracking over the telemetry buffer.                     *)
(***************************************************************************)
\* `frame.lap_distance_pct < lap_completion_threshold && frame.lap_number == 0`
IncompleteLap(frame) == frame.low /\ frame.lap_number = 0

\* `state.current_lap == 0 || state.current_lap == -1`
FirstLapOrPits(lap) == lap = 0 \/ lap = -1

\* the buffer after a completed lap was taken out of it, without the frame
\* that opened the new lap
BufferAfterLap_Empty(frame) == << >>

\* `telemetry_buffer.clear(); telemetry_buffer.push(frame.clone())`
BufferAfterLap(frame) == << frame >>

\* create_lap_event: Err without session info, else the buffered frames
\* with the session
create_lap_event(buffer, session) ==
    IF session = None THEN [ok |-> FALSE, frames |-> << >>, session |-> None]
                      ELSE [ok |-> TRUE, frames |-> buffer, session |-> session]

(***************************************************************************)
(* Braking zones.                                                          *)
(***************************************************************************)
\* frame.timestamp of the frame at a 0-based index
Timestamp(idx) == idx * FrameStepMs

\* `idx.saturating_sub(1)`: the zone ended at the previous frame
ZoneEndIdx(idx) == IF idx = 0 THEN 0 ELSE idx - 1

\* finalize_builder: `end_frame.timestamp - builder.start_timestamp`
finalize_builder(start_idx, end_idx, frameCount) ==
    LET end_frame == IF end_idx < frameCount - 1 THEN end_idx ELSE frameCount - 1
    IN  [start_idx |-> start_idx,
         end_idx |-> end_idx,
         braking_duration |-> Timestamp(end_frame) - Timestamp(start_idx)]

(***************************************************************************)
(* Rate control: UpdateRate and the Throttle combinator of tokio_stream.   *)
(***************************************************************************)
\* UpdateRate::Native | UpdateRate::Max(hz)
Native == [kind |-> "Native", hz |-> 0]
Max(hz) == [kind |-> "Max", hz |-> hz]

\* UpdateRate::normalize: the requested rate is the effective rate
normalize(rate) == rate

\* Duration::from_secs_f64(1.0 / hz), in clock units; Native is not throttled
ThrottleInterval(rate) ==
    IF rate.kind = "Max" THEN ClockHz \div rate.hz ELSE 0

\* Throttle::poll_next polls the inner stream once its delay has completed
\* (has_delayed); a new Throttle has nothing to wait for
ThrottleReady(interval, until, clock) == interval = 0 \/ clock >= until

\* ... and after an item: delay.reset(Instant::now() + duration)
ThrottleReset(interval, until, clock) ==
    IF interval = 0 THEN until ELSE clock + interval

(***************************************************************************)
(* Reader loop helpers.                                                    *)
(***************************************************************************)
\* driver.rs:135  error_count = 0 on a successful read
ResetErrorCount_Keep(ec) == ec

ResetErrorCount(ec) == 0

\* driver.rs:152  last_session_version != Some(version)
VersionChanged_FirstOnly(last, version) == last = None

VersionChanged(last, version) == last # version

\* driver.rs:146-149  `*guard = Some(frame.clone())` on every frame read
StoreCurrentFrame_OnlyFirst(old, tick) == IF old = None THEN tick ELSE old

StoreCurrentFrame_Skip(old, tick) == old

StoreCurrentFrame(old, tick) == tick

\* driver.rs:232  Duration::from_millis(50 * (1 << error_count.min(5))),
\* evaluated after `error_count += 1`
BACKOFF_BASE_MS == 50
BACKOFF_MAX_SHIFT == 5

Min(a, b) == IF a < b THEN a ELSE b

BackoffMillis(ec) == BACKOFF_BASE_MS * 2 ^ Min(ec, BACKOFF_MAX_SHIFT)

\* the parse task's match on SessionInfo::parse: Ok stores the session in
\* SyncState, Err only logs
SessionAfterParse_ClearOnErr(cur, version, ok) == IF ok THEN version ELSE None

SessionAfterParse(cur, version, ok) == IF ok THEN version ELSE cur

\* driver.rs:200-205  `Err(e) => warn!("Failed to fetch session YAML ...")`
FetchErrorLogged(errors, tick, result) ==
    IF result = "err" THEN errors \cup {tick} ELSE errors

\* ... and Ok sends the session on session_tx, Err sends nothing
SessionSent(log, version, ok) == IF ok THEN Append(log, version) ELSE log

\* a call on the Provider: the future is created by the reader task and
\* awaited in place; it ends when it returns or when select! drops it
CallBegins(calls, method) == [calls EXCEPT ![method] = @ + 1]

\* the future is left running after the reader moved on
CallEnds_Leak(calls, method) == calls

CallEnds(calls, method) == [calls EXCEPT ![method] = @ - 1]

\* CancellationToken::cancel(): sets the token, whatever its state
CancelToken_Noop(token) == token

CancelToken(token) == TRUE

VARIABLES
    \* reader task (Driver::frame_reader_task)
    pc,                    \* "check" | "read" | "yaml" | "send" | "backoff" | "stopped"
    stopReason,            \* "none" | "graceful" | "cancelled" | "fatal"
    error_count,
    last_session_version,
    packet,                \* the packet being processed between read and send
    \* CancellationToken
    cancel,
    \* SyncState
    current_frame,
    current_session,
    \* detached parse tasks: the versions whose YAML is being parsed
    parseTasks,
    parseFailed,           \* the packets whose YAML failed to parse
    fetchErrors,           \* the ticks at which session_yaml() returned Err
    \* frame channel: every value stored, in order; session channel: every
    \* value handed to session_tx.send, in order
    frames,
    sessions,
    \* the caller of open() and the Connection it gets
    openPc,                \* "spawned" | "waiting" | "open" | "dropped"
    openNext,
    openGotFrame,
    \* subscribe() calls and the streams they return
    subState,              \* "none" | "stream" | "panicked" | "ended"
    subType,
    subPos,
    next,
    items,
    lagWarned,
    \* history of the provider and of the reader's calls
    returned,              \* packets next_frame() returned, in order
    inFlight,              \* Provider calls begun and not yet returned or dropped
    yamlReqs,              \* ticks of the packets that triggered session_yaml
    sendCalls,             \* ticks handed to frame_tx.send, in order
    recoveredRead,         \* the latest successful read followed >= 1 error
    backoff,               \* milliseconds of the backoff sleep in progress, else 0
    \* what open()/connect() saw: how the wait ended and what the caller's
    \* first current_session() call returns
    openResult,            \* "none" | "frame" | "lagged" | "timeout" | "nowait"
    sessionAtOpen,
    \* rate control of the streams (tokio_stream Throttle)
    subRate,               \* throttle interval in clock units, 0 for Native
    throttleUntil,         \* deadline of the Throttle's delay
    deliveredAt,           \* clock reading at each delivered item
    \* FrameAdapter state of the streams
    subPlan,               \* the AdapterValidation moved into the stream
    validateCalls,         \* validate_schema calls made by each subscribe()
    decoded,               \* the instances adapt() produced, in order
    planUsed,              \* the plan each adapt() call was given
    nameLookups,           \* by-name resolutions made while decoding
    warned,                \* the `static WARNED: Once` cells that have run
    warnLog,               \* the type-mismatch warnings logged, in order
    \* wall clock, and the clock reading at each stored frame
    \* AcceleratedReplayProvider
    provPc,                \* "none" before new(), then "idle" / "tick"
    requested,             \* the speed passed to new(), in tenths
    speed,                 \* self.speed, in tenths
    frame_interval,        \* period of self.interval, in microseconds
    total_frames,          \* reader.total_frames()
    reader_current_frame,  \* reader.current_frame()
    intervalDue,           \* deadline of the interval's next tick
    provClock,             \* microseconds since new()
    results,               \* what each next_frame() call returned
    \* EventBus
    busPc,                 \* run(): "select", "dispatch" or "stopped"
    busLog,                \* every event sent on the broadcast channel
    busNext,               \* events the loop's receiver has passed
    busCurrent,            \* the event being dispatched
    syncQueue,             \* the unbounded sync bridge
    published,             \* events whose publish returned Ok
    handled,               \* per handler: the events it was given
    busLagged,             \* events the loop's receiver skipped
    notified,              \* the loop's Notified future was woken
    shutdownCalls,         \* shutdown() calls made
    dispatched,            \* the events the loop received, in order
    handlerErrors,         \* per dispatch: the handlers that returned Err
    shutdownAt,            \* events published when shutdown() was first called
    \* LapHandler
    current_lap,           \* LapState.current_lap
    telemetry_buffer,      \* LapState.telemetry_buffer
    lapSession,            \* LapState.current_session
    num_telemetry_events,  \* LapState.num_telemetry_events
    arrivals,              \* the telemetry frames the handler was given
    sessionStarts,         \* SessionStart events the handler was given
    lapEvents,             \* the LapTelemetrySequence events it published
    lapErrors,             \* the frames for which handle() returned Err
    \* extract_braking_zones over the frames of a lap
    lapFrames,             \* frames: for each, whether brake > brake_threshold
    brakingState,          \* BrakingDetector.state
    builder,               \* BrakingDetector.builder: start_idx of the zone
    current_end_idx,       \* BrakingDetector.current_end_idx
    pending_builders,      \* (builder, end_idx) pairs awaiting finalize_builder
    zones,                 \* the BrakingMetrics returned
    brakePc,               \* "scan" in the loop over the frames, then "done"
    \* TelemetryCollector::run
    collectorPc,           \* where run() stands
    session_info,          \* what wait_for_session returned (None: nothing)
    session_stream,        \* the next index of session_tx the stream yields
    session_id,            \* Uuid::new_v4()
    collectorCancel,       \* TelemetryCollector.cancel
    frame_count,           \* frames collected
    collectorEvents,       \* the events the collector published
    now,
    frameTimes

vars == << pc, stopReason, error_count, last_session_version, packet, cancel,
           current_frame, current_session, parseTasks, parseFailed, fetchErrors, frames,
           sessions,
           openPc, openNext, openGotFrame,
           subState, subType, subPos, next, items, lagWarned,
           returned, yamlReqs, sendCalls, recoveredRead, backoff, inFlight,
           openResult, sessionAtOpen, subRate, throttleUntil, deliveredAt,
           subPlan, validateCalls, decoded, planUsed, nameLookups, warned,
           warnLog, now, frameTimes ,
           provPc, requested, speed, frame_interval, total_frames,
           reader_current_frame, intervalDue, provClock, results,
           busPc, busLog, busNext, busCurrent, syncQueue, published, handled,
           busLagged, notified, shutdownCalls ,
           dispatched, handlerErrors, shutdownAt ,
           current_lap, telemetry_buffer, lapSession, num_telemetry_events,
           arrivals, sessionStarts, lapEvents, lapErrors ,
           lapFrames, brakingState, builder, current_end_idx,
           pending_builders, zones, brakePc ,
           collectorPc, session_info, session_stream, session_id,
           collectorCancel, frame_count, collectorEvents >>

readerVars == << pc, stopReason, error_count, last_session_version, packet,
                 current_frame, returned, yamlReqs, sendCalls, recoveredRead,
                 backoff , inFlight >>
sessionVars == << current_session, parseTasks, parseFailed, fetchErrors, sessions >>
openVars == << openPc, openNext, openGotFrame, openResult, sessionAtOpen >>
adapterVars == << subPlan, validateCalls, decoded, planUsed, nameLookups,
                 warned, warnLog >>
subVars == << subState, subType, subPos, next, items, lagWarned,
             subRate, throttleUntil, deliveredAt, adapterVars >>
clockVars == << now, frameTimes >>
providerVars == << provPc, requested, speed, frame_interval, total_frames,
                  reader_current_frame, intervalDue, provClock, results >>
busVars == << busPc, busLog, busNext, busCurrent, syncQueue, published,
             handled, busLagged, notified, shutdownCalls, dispatched,
             handlerErrors, shutdownAt >>
lapVars == << current_lap, telemetry_buffer, lapSession, num_telemetry_events,
             arrivals, sessionStarts, lapEvents, lapErrors >>
brakeVars == << lapFrames, brakingState, builder, current_end_idx,
               pending_builders, zones, brakePc >>
collectorVars == << collectorPc, session_info, session_stream, session_id,
                   collectorCancel, frame_count, collectorEvents >>
appVars == << providerVars, busVars, lapVars, brakeVars, collectorVars >>
pitwallVars == << readerVars, cancel, sessionVars, frames, openVars, subVars,
                 clockVars >>
notProviderVars == << pitwallVars, busVars, lapVars, brakeVars, collectorVars >>
notBusVars == << pitwallVars, providerVars, lapVars, brakeVars, collectorVars >>
notLapVars == << pitwallVars, providerVars, busVars, brakeVars, collectorVars >>
notBrakeVars == << pitwallVars, providerVars, busVars, lapVars, collectorVars >>
\* the collector only reads the state of its source
notCollectorVars == << pitwallVars, providerVars, busVars, lapVars, brakeVars >>

FrameTail == Len(frames)

\* receivers alive on the frame channel: open()'s rx while it waits, and
\* every stream returned by subscribe()
RxCount ==
    (IF openPc = "waiting" THEN 1 ELSE 0)
    + Cardinality({s \in Subs : subState[s] = "stream"})

\* senders alive on the frame channel: the reader task's clone until the
\* task returns, and the Connection's frame_tx until the Connection drops
ReaderHoldsSender == pc # "stopped"
ConnectionHoldsSender == openPc # "dropped"
FrameChannelClosed == ~ReaderHoldsSender /\ ~ConnectionHoldsSender

\* the provider's ticks: a monotonically increasing sample index
NextTick == IF returned = << >> THEN FirstTick ELSE returned[Len(returned)].tick + 1

Init ==
    /\ pc = "check"
    /\ stopReason = "none"
    /\ error_count = 0
    /\ last_session_version = None
    /\ packet = NoPacket
    /\ cancel = FALSE
    /\ current_frame = None
    /\ current_session = None
    /\ parseTasks = {}
    /\ parseFailed = {}
    /\ fetchErrors = {}
    /\ frames = << >>
    /\ sessions = << >>
    /\ openPc = "spawned"
    /\ openNext = None
    /\ openGotFrame = FALSE
    /\ subState = [s \in Subs |-> "none"]
    /\ subType = [s \in Subs |-> "CarData"]
    /\ subPos = [s \in Subs |-> None]
    /\ next = [s \in Subs |-> 0]
    /\ items = [s \in Subs |-> << >>]
    /\ lagWarned = [s \in Subs |-> << >>]
    /\ returned = << >>
    /\ yamlReqs = << >>
    /\ inFlight = [next_frame |-> 0, session_yaml |-> 0]
    /\ provPc = "none"
    /\ requested = 0
    /\ speed = 0
    /\ frame_interval = 0
    /\ total_frames = 0
    /\ reader_current_frame = 0
    /\ intervalDue = 0
    /\ provClock = 0
    /\ results = << >>
    /\ busPc = "select"
    /\ busLog = << >>
    /\ busNext = 0
    /\ busCurrent = None
    /\ syncQueue = << >>
    /\ published = << >>
    /\ handled = [h \in Handlers |-> << >>]
    /\ busLagged = 0
    /\ notified = FALSE
    /\ shutdownCalls = 0
    /\ dispatched = << >>
    /\ handlerErrors = << >>
    /\ shutdownAt = None
    /\ current_lap = -1
    /\ telemetry_buffer = << >>
    /\ lapSession = None
    /\ num_telemetry_events = 0
    /\ arrivals = << >>
    /\ sessionStarts = 0
    /\ lapEvents = << >>
    /\ lapErrors = << >>
    /\ lapFrames = << >>
    /\ brakingState = "Idle"
    /\ builder = None
    /\ current_end_idx = 0
    /\ pending_builders = << >>
    /\ zones = << >>
    /\ brakePc = "scan"
    /\ collectorPc = "created"
    /\ session_info = None
    /\ session_stream = None
    /\ session_id = None
    /\ collectorCancel = FALSE
    /\ frame_count = 0
    /\ collectorEvents = << >>
    /\ sendCalls = << >>
    /\ recoveredRead = FALSE
    /\ backoff = 0
    /\ openResult = "none"
    /\ sessionAtOpen = None
    /\ subRate = [s \in Subs |-> 0]
    /\ throttleUntil = [s \in Subs |-> 0]
    /\ deliveredAt = [s \in Subs |-> << >>]
    /\ subPlan = [s \in Subs |-> << >>]
    /\ validateCalls = [s \in Subs |-> 0]
    /\ decoded = [s \in Subs |-> << >>]
    /\ planUsed = [s \in Subs |-> << >>]
    /\ nameLookups = [s \in Subs |-> 0]
    /\ warned = {}
    /\ warnLog = << >>
    /\ now = 0
    /\ frameTimes = << >>

(***************************************************************************)
(* Reader task: Driver::frame_reader_task.                                 *)
(***************************************************************************)
Stop_Resume(reason) ==
    /\ pc' = "check"
    /\ stopReason' = reason

Stop(reason) ==
    /\ pc' = "stopped"
    /\ stopReason' = reason

\* loop top: `if cancel.is_cancelled() { break; }`
ReaderCheck ==
    /\ pc = "check"
    /\ IF cancel THEN Stop("cancelled") /\ UNCHANGED inFlight
                 ELSE /\ pc' = "read"
                      /\ inFlight' = CallBegins(inFlight, "next_frame")
                      /\ UNCHANGED stopReason
    /\ UNCHANGED << error_count, last_session_version, packet, current_frame,
                    returned, yamlReqs, sendCalls, recoveredRead, backoff >>
    /\ UNCHANGED << cancel, sessionVars, frames, openVars, subVars, clockVars, appVars >>

\* select!: the `cancel.cancelled()` branch wins
ReadCancelled ==
    /\ pc = "read"
    /\ cancel
    /\ Stop("cancelled")
    /\ UNCHANGED << error_count, last_session_version, packet, current_frame,
                    returned, yamlReqs, sendCalls, recoveredRead, backoff >>
    /\ UNCHANGED << cancel, sessionVars, frames, openVars, subVars, clockVars, appVars >>
    /\ inFlight' = CallEnds(inFlight, "next_frame")

\* select!: next_frame() returns Ok(Some(packet)); the code runs on to the
\* next suspension point, the session_yaml() await, or to the send
ReadFrame(tick, version) ==
    /\ pc = "read"
    /\ Len(returned) < MaxFrames
    /\ tick = NextTick
    /\ error_count' = ResetErrorCount(error_count)
    /\ recoveredRead' = (error_count > 0)
    /\ packet' = Packet(tick, version)
    /\ returned' = Append(returned, Packet(tick, version))
    /\ current_frame' = StoreCurrentFrame(current_frame, tick)
    /\ IF VersionChanged(last_session_version, version)
       THEN /\ yamlReqs' = Append(yamlReqs, tick)
            /\ inFlight' = CallBegins(CallEnds(inFlight, "next_frame"),
                                      "session_yaml")
            /\ pc' = "yaml"
       ELSE /\ yamlReqs' = yamlReqs
            /\ inFlight' = CallEnds(inFlight, "next_frame")
            /\ pc' = "send"
    /\ UNCHANGED << stopReason, last_session_version, sendCalls, backoff >>
    /\ UNCHANGED << cancel, sessionVars, frames, openVars, subVars, clockVars, appVars >>

\* session_yaml(version) returns: Ok(Some(yaml)) spawns a detached parse
\* task, Ok(None) and Err only log; last_session_version is set in all cases
YamlReturn_ParseInline(result) ==
    /\ pc = "yaml"
    /\ current_session' = IF result = "some" THEN packet.session_version
                                             ELSE current_session
    /\ sessions' = IF result = "some" THEN Append(sessions, packet.session_version)
                                      ELSE sessions
    /\ last_session_version' = packet.session_version
    /\ pc' = "send"
    /\ UNCHANGED << stopReason, error_count, packet, current_frame,
                    returned, yamlReqs, sendCalls, recoveredRead, backoff >>
    /\ fetchErrors' = FetchErrorLogged(fetchErrors, packet.tick, result)
    /\ UNCHANGED << cancel, parseTasks, parseFailed, frames,
                    openVars, subVars, clockVars, appVars >>
    /\ inFlight' = CallEnds(inFlight, "session_yaml")

YamlReturn(result) ==
    /\ pc = "yaml"
    /\ parseTasks' = IF result = "some"
                     THEN parseTasks \cup {packet}
                     ELSE parseTasks
    /\ last_session_version' = packet.session_version
    /\ pc' = "send"
    /\ UNCHANGED << stopReason, error_count, packet, current_frame,
                    returned, yamlReqs, sendCalls, recoveredRead, backoff >>
    /\ fetchErrors' = FetchErrorLogged(fetchErrors, packet.tick, result)
    /\ UNCHANGED << cancel, current_session, parseFailed, sessions, frames,
                    openVars, subVars, clockVars, appVars >>
    /\ inFlight' = CallEnds(inFlight, "session_yaml")

\* `let _ = frame_tx.send(frame);`
SendFrame ==
    /\ pc = "send"
    /\ sendCalls' = Append(sendCalls, packet.tick)
    /\ frames' = BroadcastSend(frames, packet, RxCount)
    /\ frameTimes' = BroadcastSend(frameTimes, now, RxCount)
    /\ packet' = NoPacket
    /\ pc' = "check"
    /\ UNCHANGED << stopReason, error_count, last_session_version,
                    current_frame, returned, yamlReqs, recoveredRead, backoff >>
    /\ UNCHANGED << cancel, sessionVars, openVars, subVars, now, appVars >>
    /\ UNCHANGED inFlight

\* select!: next_frame() returns Ok(None)
ReadEndOfStream ==
    /\ pc = "read"
    /\ Stop("graceful")
    /\ UNCHANGED << error_count, last_session_version, packet, current_frame,
                    returned, yamlReqs, sendCalls, recoveredRead, backoff >>
    /\ UNCHANGED << cancel, sessionVars, frames, openVars, subVars, clockVars, appVars >>
    /\ inFlight' = CallEnds(inFlight, "next_frame")

\* select!: next_frame() returns Err
ReadError ==
    /\ pc = "read"
    /\ error_count' = error_count + 1
    /\ IF error_count + 1 >= MAX_ERRORS
       THEN Stop("fatal") /\ UNCHANGED backoff
       ELSE /\ pc' = "backoff"
            /\ backoff' = BackoffMillis(error_count + 1)
            /\ UNCHANGED stopReason
    /\ UNCHANGED << last_session_version, packet, current_frame,
                    returned, yamlReqs, sendCalls, recoveredRead >>
    /\ UNCHANGED << cancel, sessionVars, frames, openVars, subVars, clockVars, appVars >>
    /\ inFlight' = CallEnds(inFlight, "next_frame")

\* `tokio::time::sleep(backoff).await` completes
BackoffElapsed ==
    /\ pc = "backoff"
    /\ pc' = "check"
    /\ backoff' = 0
    /\ UNCHANGED << stopReason, error_count, last_session_version, packet,
                    current_frame, returned, yamlReqs, sendCalls, recoveredRead >>
    /\ UNCHANGED << cancel, sessionVars, frames, openVars, subVars, clockVars, appVars >>
    /\ UNCHANGED inFlight

(***************************************************************************)
(* Detached parse task spawned by the reader.                              *)
(***************************************************************************)
ParseOk(task) ==
    /\ task \in parseTasks
    /\ parseTasks' = parseTasks \ {task}
    /\ current_session' = SessionAfterParse(current_session, task.session_version, TRUE)
    /\ sessions' = SessionSent(sessions, task.session_version, TRUE)
    /\ UNCHANGED << parseFailed, fetchErrors >>
    /\ UNCHANGED << readerVars, cancel, frames, openVars, subVars, clockVars, appVars >>

ParseFail(task) ==
    /\ task \in parseTasks
    /\ parseTasks' = parseTasks \ {task}
    /\ current_session' = SessionAfterParse(current_session, task.session_version, FALSE)
    /\ sessions' = SessionSent(sessions, task.session_version, FALSE)
    /\ parseFailed' = parseFailed \cup {task}
    /\ UNCHANGED fetchErrors
    /\ UNCHANGED << readerVars, cancel, frames, openVars, subVars, clockVars, appVars >>

(***************************************************************************)
(* ReplayConnection::open after Driver::spawn, and Drop.                   *)
(***************************************************************************)
\* `let mut rx = channels.frame_tx.subscribe();`
OpenSubscribe ==
    /\ openPc = "spawned"
    /\ openPc' = "waiting"
    /\ openNext' = FrameTail
    /\ UNCHANGED << openGotFrame, openResult, sessionAtOpen >>
    /\ UNCHANGED << readerVars, cancel, sessionVars, frames, subVars, clockVars, appVars >>

\* `rx.recv().await.ok()` returns inside the timeout; rx is dropped
OpenFirstFrame_NoWait ==
    /\ openPc = "waiting"
    /\ openGotFrame' = (openNext >= OldestRetained(FrameTail))
    /\ openResult' = IF openNext >= OldestRetained(FrameTail) THEN "frame"
                                                              ELSE "lagged"
    /\ sessionAtOpen' = current_session
    /\ openPc' = "open"
    /\ UNCHANGED openNext
    /\ UNCHANGED << readerVars, cancel, sessionVars, frames, subVars, clockVars, appVars >>

OpenFirstFrame ==
    /\ openPc = "waiting"
    /\ openNext < FrameTail
    /\ openGotFrame' = (openNext >= OldestRetained(FrameTail))
    /\ openResult' = IF openNext >= OldestRetained(FrameTail) THEN "frame"
                                                              ELSE "lagged"
    /\ sessionAtOpen' = current_session
    /\ openPc' = "open"
    /\ UNCHANGED openNext
    /\ UNCHANGED << readerVars, cancel, sessionVars, frames, subVars, clockVars, appVars >>

\* the 5 s timeout elapses first; rx is dropped
OpenTimeout ==
    /\ openPc = "waiting"
    /\ openGotFrame' = FALSE
    /\ openResult' = "timeout"
    /\ sessionAtOpen' = current_session
    /\ openPc' = "open"
    /\ UNCHANGED openNext
    /\ UNCHANGED << readerVars, cancel, sessionVars, frames, subVars, clockVars, appVars >>

\* Drop for ReplayConnection: cancel.cancel(), then the fields (frame_tx,
\* session_tx) are dropped
DropConnection ==
    /\ openPc = "open"
    /\ openPc' = "dropped"
    /\ cancel' = CancelToken(cancel)
    /\ UNCHANGED << openNext, openGotFrame, openResult, sessionAtOpen >>
    /\ UNCHANGED << readerVars, sessionVars, frames, subVars, clockVars, appVars >>

(***************************************************************************)
(* ReplayConnection::subscribe and the stream it returns.                  *)
(***************************************************************************)
Subscribe(s, typeName, rate) ==
    /\ openPc = "open"
    /\ subState[s] = "none"
    /\ LET validation == validate_schema(DeclaredFields(typeName))
           outcome == SubscribeOutcome(validation)
           effective_rate == normalize(rate)
       IN  /\ subState' = [subState EXCEPT ![s] = outcome]
           /\ subType' = [subType EXCEPT ![s] = typeName]
           /\ subPlan' = [subPlan EXCEPT ![s] = validation.plan]
           /\ validateCalls' = [validateCalls EXCEPT ![s] = @ + 1]
           /\ IF outcome = "stream"
              THEN /\ subPos' = [subPos EXCEPT ![s] = FrameTail]
                   /\ next' = [next EXCEPT ![s] = FrameTail]
                   /\ subRate' = [subRate EXCEPT
                                     ![s] = ThrottleInterval(effective_rate)]
              ELSE UNCHANGED << subPos, next, subRate >>
    /\ UNCHANGED << items, lagWarned, throttleUntil, deliveredAt,
                    decoded, planUsed, nameLookups, warned, warnLog >>
    /\ UNCHANGED << readerVars, cancel, sessionVars, frames, openVars, clockVars, appVars >>

\* one poll of BroadcastStream by the filter_map/map chain, behind the
\* Throttle when the rate is Max(hz)
SubLagged(s) ==
    /\ subState[s] = "stream"
    /\ ThrottleReady(subRate[s], throttleUntil[s], now)
    /\ next[s] < OldestRetained(FrameTail)
    /\ lagWarned' = [lagWarned EXCEPT
                        ![s] = Append(@, LagMissed(next[s], FrameTail))]
    /\ next' = [next EXCEPT ![s] = LagResume(next[s], FrameTail)]
    /\ UNCHANGED << subState, subType, subPos, items,
                    subRate, throttleUntil, deliveredAt, adapterVars >>
    /\ UNCHANGED << readerVars, cancel, sessionVars, frames, openVars, clockVars, appVars >>

SubRecv(s) ==
    /\ subState[s] = "stream"
    /\ ThrottleReady(subRate[s], throttleUntil[s], now)
    /\ next[s] >= OldestRetained(FrameTail)
    /\ next[s] < FrameTail
    /\ next' = RecvCursor(next, s)
    /\ throttleUntil' = [throttleUntil EXCEPT
                            ![s] = ThrottleReset(subRate[s], @, now)]
    /\ LET tick == frames[next[s] + 1].tick
           instance == adapt(tick, subPlan[s], DeclaredFields(subType[s]))
           warnings == WarnOnce(warned,
                                {<< subType[s], i >> : i \in instance.mismatches})
       IN  /\ planUsed' = [planUsed EXCEPT ![s] = Append(@, subPlan[s])]
           /\ nameLookups' = [nameLookups EXCEPT ![s] = @ + instance.lookups]
           /\ IF instance.fault
              THEN /\ subState' = [subState EXCEPT ![s] = "faulted"]
                   /\ UNCHANGED << items, deliveredAt, decoded, warned, warnLog >>
              ELSE /\ items' = [items EXCEPT ![s] = Append(@, tick)]
                   /\ deliveredAt' = [deliveredAt EXCEPT ![s] = Append(@, now)]
                   /\ decoded' = [decoded EXCEPT ![s] = Append(@, instance.values)]
                   /\ warned' = warned \cup warnings
                   /\ warnLog' = warnLog \o SetToSeq(warnings)
                   /\ UNCHANGED subState
    /\ UNCHANGED << subType, subPos, lagWarned, subRate, subPlan, validateCalls >>
    /\ UNCHANGED << readerVars, cancel, sessionVars, frames, openVars, clockVars, appVars >>

SubClosed(s) ==
    /\ subState[s] = "stream"
    /\ ThrottleReady(subRate[s], throttleUntil[s], now)
    /\ next[s] = FrameTail
    /\ FrameChannelClosed
    /\ subState' = [subState EXCEPT ![s] = "ended"]
    /\ UNCHANGED << subType, subPos, next, items, lagWarned,
                    subRate, throttleUntil, deliveredAt, adapterVars >>
    /\ UNCHANGED << readerVars, cancel, sessionVars, frames, openVars, clockVars, appVars >>

\* wall-clock time passes
Tick ==
    /\ now < MaxTime
    /\ now' = now + 1
    /\ UNCHANGED << readerVars, cancel, sessionVars, frames, openVars, subVars,
                    frameTimes, appVars >>

\* LiveConnection::connect: Driver::spawn, then the Connection is returned
\* without waiting for a frame
Connect ==
    /\ openPc = "spawned"
    /\ openPc' = "open"
    /\ openResult' = "nowait"
    /\ sessionAtOpen' = current_session
    /\ UNCHANGED << openNext, openGotFrame >>
    /\ UNCHANGED << readerVars, cancel, sessionVars, frames, subVars, clockVars, appVars >>

(***************************************************************************)
(* AcceleratedReplayProvider.                                              *)
(***************************************************************************)
RequestedSpeeds == {-10, 0, 1, 5, 10, 25, 1000, 1001, 5000}

\* AcceleratedReplayProvider::new(path, speed)
ProviderNew(s, frameCount) ==
    /\ provPc = "none"
    /\ provPc' = "idle"
    /\ requested' = s
    /\ speed' = ClampSpeed(s)
    /\ frame_interval' = FrameInterval(TickRateHz, ClampSpeed(s))
    /\ total_frames' = frameCount
    /\ reader_current_frame' = 0
    /\ intervalDue' = provClock
    /\ UNCHANGED << provClock, results >>
    /\ UNCHANGED notProviderVars

\* next_frame() called with the cursor at the end: Ok(None) at once
NextFrameAtEnd ==
    /\ provPc = "idle"
    /\ AtEnd(reader_current_frame, total_frames)
    /\ Len(results) < total_frames + MaxExtraCalls
    /\ results' = Append(results, None)
    /\ UNCHANGED << provPc, requested, speed, frame_interval, total_frames,
                    reader_current_frame, intervalDue, provClock >>
    /\ UNCHANGED notProviderVars

\* next_frame() called before the end: it waits in `self.interval.tick().await`
NextFrameCalled ==
    /\ provPc = "idle"
    /\ ~AtEnd(reader_current_frame, total_frames)
    /\ Len(results) < total_frames + MaxExtraCalls
    /\ provPc' = "tick"
    /\ UNCHANGED << requested, speed, frame_interval, total_frames,
                    reader_current_frame, intervalDue, provClock, results >>
    /\ UNCHANGED notProviderVars

\* the tick completes; read_next_frame() gives the packet or None
NextFrameTicked ==
    /\ provPc = "tick"
    /\ provClock' = TickCompletes(intervalDue, provClock)
    /\ intervalDue' = intervalDue + frame_interval
    /\ LET read == read_next_frame(reader_current_frame, total_frames)
       IN  /\ results' = Append(results, read)
           /\ reader_current_frame' = IF read = None THEN reader_current_frame
                                                     ELSE read
    /\ provPc' = "idle"
    /\ UNCHANGED << requested, speed, frame_interval, total_frames >>
    /\ UNCHANGED notProviderVars

(***************************************************************************)
(* EventBus.                                                               *)
(***************************************************************************)
LoopRunning == busPc # "stopped"

\* the loop polls its select!: the Notified future of this iteration exists
LoopWaiting == busPc = "select"

\* the n-th event of a publisher
EventOf(p) ==
    [publisher |-> p,
     seq |-> 1 + Cardinality({i \in DOMAIN published : published[i].publisher = p})
               + Cardinality({i \in DOMAIN syncQueue : syncQueue[i].publisher = p})]

EventsMade == Len(published) + Len(syncQueue)

\* EventBus::publish / EventPublisher::publish: broadcast send, Ok while the
\* loop's receiver exists
Publish(p) ==
    /\ EventsMade < MaxEvents
    /\ LoopRunning
    /\ busLog' = Append(busLog, EventOf(p))
    /\ published' = Append(published, EventOf(p))
    /\ UNCHANGED << busPc, busNext, busCurrent, syncQueue, handled, busLagged,
                    notified, shutdownCalls >>
    /\ UNCHANGED notBusVars
    /\ UNCHANGED << dispatched, handlerErrors, shutdownAt >>

\* publish_sync: the event goes to the unbounded sync bridge
PublishSync(p) ==
    /\ EventsMade < MaxEvents
    /\ LoopRunning
    /\ syncQueue' = Append(syncQueue, EventOf(p))
    /\ UNCHANGED << busPc, busLog, busNext, busCurrent, published, handled,
                    busLagged, notified, shutdownCalls >>
    /\ UNCHANGED notBusVars
    /\ UNCHANGED << dispatched, handlerErrors, shutdownAt >>

\* select!: `Some(timestamped) = sync_receiver.recv()`, forwarded to the
\* broadcast channel; the other branches' futures are dropped
LoopForwardSync ==
    /\ busPc = "select"
    /\ syncQueue # << >>
    /\ busLog' = Append(busLog, Head(syncQueue))
    /\ published' = Append(published, Head(syncQueue))
    /\ syncQueue' = Tail(syncQueue)
    /\ notified' = FALSE
    /\ UNCHANGED << busPc, busNext, busCurrent, handled, busLagged, shutdownCalls >>
    /\ UNCHANGED notBusVars
    /\ UNCHANGED << dispatched, handlerErrors, shutdownAt >>

\* select!: event_receiver.recv() returns Ok(event); the dispatch begins
LoopRecv ==
    /\ busPc = "select"
    /\ busNext < Len(busLog)
    /\ busNext >= BusOldestRetained(Len(busLog))
    /\ busCurrent' = busLog[busNext + 1]
    /\ busNext' = busNext + 1
    /\ busPc' = "dispatch"
    /\ notified' = FALSE
    /\ UNCHANGED << busLog, syncQueue, published, handled, busLagged, shutdownCalls >>
    /\ UNCHANGED notBusVars
    /\ dispatched' = Append(dispatched, busLog[busNext + 1])
    /\ UNCHANGED << handlerErrors, shutdownAt >>

\* select!: event_receiver.recv() returns Err(Lagged(n)): a warning only
LoopLagged ==
    /\ busPc = "select"
    /\ busNext < BusOldestRetained(Len(busLog))
    /\ busLagged' = busLagged + (BusOldestRetained(Len(busLog)) - busNext)
    /\ busNext' = BusOldestRetained(Len(busLog))
    /\ notified' = FALSE
    /\ UNCHANGED << busPc, busLog, busCurrent, syncQueue, published, handled,
                    shutdownCalls >>
    /\ UNCHANGED notBusVars
    /\ UNCHANGED << dispatched, handlerErrors, shutdownAt >>

\* `join_all(handlers ...).await` completes: every handler was given the
\* event; the handlers in `failing` returned Err, which is only logged
DispatchDone(failing) ==
    /\ busPc = "dispatch"
    /\ handled' = [h \in Handlers |->
                      IF h \in HandlersRun(Handlers, failing)
                      THEN Append(handled[h], busCurrent) ELSE handled[h]]
    /\ handlerErrors' = Append(handlerErrors, failing)
    /\ busCurrent' = None
    /\ busPc' = AfterDispatch(failing)
    /\ UNCHANGED << busLog, busNext, syncQueue, published, busLagged, notified,
                    shutdownCalls, dispatched, shutdownAt >>
    /\ UNCHANGED notBusVars

\* EventBus::shutdown(): `self.shutdown.notify_waiters()`
Shutdown ==
    /\ shutdownCalls < MaxShutdowns
    /\ LoopRunning
    /\ shutdownCalls' = shutdownCalls + 1
    /\ notified' = NotifyWaiters(LoopWaiting, notified)
    /\ UNCHANGED << busPc, busLog, busNext, busCurrent, syncQueue, published,
                    handled, busLagged >>
    /\ UNCHANGED notBusVars
    /\ shutdownAt' = IF shutdownAt = None THEN Len(published) ELSE shutdownAt
    /\ UNCHANGED << dispatched, handlerErrors >>

\* select!: `_ = self.shutdown.notified()` completes and the loop breaks
LoopShutdown ==
    /\ busPc = "select"
    /\ notified
    /\ busPc' = "stopped"
    /\ UNCHANGED << busLog, busNext, busCurrent, syncQueue, published, handled,
                    busLagged, notified, shutdownCalls >>
    /\ UNCHANGED notBusVars
    /\ UNCHANGED << dispatched, handlerErrors, shutdownAt >>

(***************************************************************************)
(* LapHandler.                                                             *)
(***************************************************************************)
\* the frames a collector may send: a lap number, and whether the distance
\* is below the completion threshold (which matters on lap 0 only)
LapInputs ==
    {[lap_number |-> n, low |-> FALSE] : n \in 0..MaxLap}
        \cup {[lap_number |-> 0, low |-> TRUE]}

\* handle_session_start that only stores the session
HandleSessionStart_SessionOnly ==
    /\ sessionStarts < MaxSessionStarts
    /\ sessionStarts' = sessionStarts + 1
    /\ lapSession' = sessionStarts + 1
    /\ UNCHANGED << current_lap, telemetry_buffer, num_telemetry_events,
                    arrivals, lapEvents, lapErrors >>
    /\ UNCHANGED notLapVars

\* Event::SessionStart(session) => handle_session_start
HandleSessionStart ==
    /\ sessionStarts < MaxSessionStarts
    /\ sessionStarts' = sessionStarts + 1
    /\ telemetry_buffer' = << >>
    /\ lapSession' = sessionStarts + 1
    /\ current_lap' = -1
    /\ num_telemetry_events' = 0
    /\ UNCHANGED << arrivals, lapEvents, lapErrors >>
    /\ UNCHANGED notLapVars

\* Event::TelemetryEvent(payload) => handle_telemetry_frame, and the publish
\* of the lap event it returns
HandleTelemetryFrame(input) ==
    /\ Len(arrivals) < MaxLapFrames
    /\ LET frame == [id |-> Len(arrivals) + 1, lap_number |-> input.lap_number,
                     low |-> input.low, epoch |-> sessionStarts]
           event == create_lap_event(telemetry_buffer, lapSession)
       IN  /\ arrivals' = Append(arrivals, frame)
           /\ num_telemetry_events' = num_telemetry_events + 1
           /\ IF frame.lap_number # current_lap
              THEN IF IncompleteLap(frame)
                   THEN /\ current_lap' = frame.lap_number
                        /\ telemetry_buffer' = << >>
                        /\ UNCHANGED << lapEvents, lapErrors >>
                   ELSE IF FirstLapOrPits(current_lap)
                   THEN /\ current_lap' = frame.lap_number
                        /\ telemetry_buffer' = << frame >>
                        /\ UNCHANGED << lapEvents, lapErrors >>
                   ELSE IF telemetry_buffer # << >>
                   THEN IF event.ok
                        THEN /\ lapEvents' = Append(lapEvents,
                                    [frames |-> event.frames,
                                     session |-> event.session,
                                     epoch |-> sessionStarts])
                             /\ telemetry_buffer' = BufferAfterLap(frame)
                             /\ current_lap' = frame.lap_number
                             /\ UNCHANGED lapErrors
                        ELSE /\ lapErrors' = Append(lapErrors, frame.id)
                             /\ UNCHANGED << current_lap, telemetry_buffer, lapEvents >>
                   ELSE /\ current_lap' = frame.lap_number
                        /\ telemetry_buffer' = Append(telemetry_buffer, frame)
                        /\ UNCHANGED << lapEvents, lapErrors >>
              ELSE /\ telemetry_buffer' = Append(telemetry_buffer, frame)
                   /\ UNCHANGED << current_lap, lapEvents, lapErrors >>
    /\ UNCHANGED << lapSession, sessionStarts >>
    /\ UNCHANGED notLapVars

(***************************************************************************)
(* extract_braking_zones and BrakingDetector.                              *)
(***************************************************************************)
\* one iteration of `for (idx, frame) in frames.iter().enumerate()`:
\* detector.process_frame(frame, idx) and the push of a completed builder
ProcessFrame(is_braking) ==
    /\ brakePc = "scan"
    /\ Len(lapFrames) < MaxBrakeFrames
    /\ LET idx == Len(lapFrames)
       IN  /\ lapFrames' = Append(lapFrames, is_braking)
           /\ IF brakingState = "Idle"
              THEN IF is_braking
                   THEN /\ brakingState' = "Active"
                        /\ builder' = idx
                        /\ current_end_idx' = idx
                        /\ UNCHANGED pending_builders
                   ELSE UNCHANGED << brakingState, builder, current_end_idx,
                                     pending_builders >>
              ELSE IF is_braking
                   THEN /\ current_end_idx' = idx
                        /\ UNCHANGED << brakingState, builder, pending_builders >>
                   ELSE /\ brakingState' = "Idle"
                        /\ builder' = None
                        /\ pending_builders' =
                              Append(pending_builders,
                                     [start_idx |-> builder,
                                      end_idx |-> ZoneEndIdx(idx),
                                      released |-> idx])
                        /\ UNCHANGED current_end_idx
    /\ UNCHANGED << zones, brakePc >>
    /\ UNCHANGED notBrakeVars

\* after the loop: detector.finalize() for a zone still open at the end of
\* the lap, then finalize_builder for every pending builder
FinalizeZones ==
    /\ brakePc = "scan"
    /\ lapFrames # << >>
    /\ LET all == IF brakingState = "Active"
                  THEN Append(pending_builders,
                              [start_idx |-> builder,
                               end_idx |-> Len(lapFrames) - 1,
                               released |-> None])
                  ELSE pending_builders
       IN  /\ zones' = [k \in DOMAIN all |->
                          [released |-> all[k].released,
                           metrics |-> finalize_builder(all[k].start_idx,
                                                        all[k].end_idx,
                                                        Len(lapFrames))]]
           /\ pending_builders' = all
    /\ brakingState' = "Idle"
    /\ builder' = None
    /\ brakePc' = "done"
    /\ UNCHANGED << lapFrames, current_end_idx >>
    /\ UNCHANGED notBrakeVars

(***************************************************************************)
(* TelemetryCollector::run and wait_for_session.                           *)
(***************************************************************************)
SessionStart(id, info) == [type |-> "SessionStart", session_id |-> id, info |-> info]
TelemetryEvent(id) == [type |-> "TelemetryEvent", session_id |-> id, info |-> None]
SessionEnd(id) == [type |-> "SessionEnd", session_id |-> id, info |-> None]

\* `if let Some(info) = &session_info { publish_session_start(...) }`
StartEvents(id, info) == IF info # None THEN << SessionStart(id, info) >> ELSE << >>

\* TelemetrySource::create has returned;
\* `if let Some(session) = source.current_session() { return Some(session); }`
CollectorCheck ==
    /\ collectorPc = "created"
    /\ openPc = "open"
    /\ session_info' = current_session
    /\ collectorPc' = IF current_session # None THEN "start" ELSE "subscribe"
    /\ UNCHANGED << session_stream, session_id, collectorCancel, frame_count,
                    collectorEvents >>
    /\ UNCHANGED notCollectorVars

\* `let mut session_stream = source.session_updates();`: a new receiver of
\* session_tx, which yields only what is sent from now on
CollectorSubscribe ==
    /\ collectorPc = "subscribe"
    /\ session_stream' = Len(sessions) + 1
    /\ collectorPc' = "wait"
    /\ UNCHANGED << session_info, session_id, collectorCancel, frame_count,
                    collectorEvents >>
    /\ UNCHANGED notCollectorVars

\* select!: `session = session_stream.next()` yields a session
CollectorSessionReceived ==
    /\ collectorPc = "wait"
    /\ session_stream <= Len(sessions)
    /\ session_info' = sessions[session_stream]
    /\ session_stream' = session_stream + 1
    /\ collectorPc' = "start"
    /\ UNCHANGED << session_id, collectorCancel, frame_count, collectorEvents >>
    /\ UNCHANGED notCollectorVars

\* select!: `_ = self.cancel.cancelled()` => None
CollectorWaitCancelled ==
    /\ collectorPc = "wait"
    /\ collectorCancel
    /\ session_info' = None
    /\ collectorPc' = "start"
    /\ UNCHANGED << session_stream, session_id, collectorCancel, frame_count,
                    collectorEvents >>
    /\ UNCHANGED notCollectorVars

\* `let session_id = Uuid::new_v4();` and the SessionStart event
CollectorStart(id) ==
    /\ collectorPc = "start"
    /\ session_id' = id
    /\ collectorEvents' = collectorEvents \o StartEvents(id, session_info)
    /\ collectorPc' = "collect"
    /\ UNCHANGED << session_info, session_stream, collectorCancel, frame_count >>
    /\ UNCHANGED notCollectorVars

\* select!: `frame = frame_stream.next()` yields a frame
CollectFrame ==
    /\ collectorPc = "collect"
    /\ frame_count < MaxCollected
    /\ frame_count' = frame_count + 1
    /\ collectorEvents' = Append(collectorEvents, TelemetryEvent(session_id))
    /\ UNCHANGED << collectorPc, session_info, session_stream, session_id,
                    collectorCancel >>
    /\ UNCHANGED notCollectorVars

\* the loop breaks, on cancellation or at the end of the frame stream, and
\* publish_session_end follows
CollectorFinish ==
    /\ collectorPc = "collect"
    /\ collectorCancel \/ FrameChannelClosed
    /\ collectorEvents' = Append(collectorEvents, SessionEnd(session_id))
    /\ collectorPc' = "done"
    /\ UNCHANGED << session_info, session_stream, session_id, collectorCancel,
                    frame_count >>
    /\ UNCHANGED notCollectorVars

\* TelemetryCollector::shutdown, or the token from cancel_token() cancelled
\* by the application
CollectorShutdown ==
    /\ ~collectorCancel
    /\ collectorCancel' = TRUE
    /\ UNCHANGED << collectorPc, session_info, session_stream, session_id,
                    frame_count, collectorEvents >>
    /\ UNCHANGED notCollectorVars

YamlResults == {"some", "none", "err"}

ReaderNext ==
    \/ ReaderCheck
    \/ ReadCancelled
    \/ \E version \in Versions : ReadFrame(NextTick, version)
    \/ \E result \in YamlResults : YamlReturn(result)
    \/ SendFrame
    \/ ReadEndOfStream
    \/ ReadError
    \/ BackoffElapsed

ParseNext ==
    \/ \E task \in parseTasks : ParseOk(task)
    \/ \E task \in parseTasks : ParseFail(task)

ConnectionNext ==
    \/ OpenSubscribe
    \/ OpenFirstFrame
    \/ OpenTimeout
    \/ DropConnection

StreamNext ==
    \/ \E s \in Subs, typeName \in TypeNames : Subscribe(s, typeName, Native)
    \/ \E s \in Subs : SubLagged(s)
    \/ \E s \in Subs : SubRecv(s)
    \/ \E s \in Subs : SubClosed(s)

\* the whole system
\* one accelerated replay provider, called by its reader
ProviderNext ==
    \/ \E s \in RequestedSpeeds, frameCount \in 0..MaxFileFrames :
          ProviderNew(s, frameCount)
    \/ NextFrameAtEnd
    \/ NextFrameCalled
    \/ NextFrameTicked

SpecProvider == Init /\ [][ProviderNext]_vars

\* the event loop, its publishers and the callers of shutdown()
BusNext ==
    \/ \E p \in Publishers : Publish(p)
    \/ \E p \in Publishers : PublishSync(p)
    \/ LoopForwardSync
    \/ LoopRecv
    \/ LoopLagged
    \/ \E failing \in FailingSets : DispatchDone(failing)
    \/ Shutdown
    \/ LoopShutdown

SpecBus == Init /\ [][BusNext]_vars

\* the lap handler and the events it is given
LapNext ==
    \/ HandleSessionStart
    \/ \E input \in LapInputs : HandleTelemetryFrame(input)

SpecLap == Init /\ [][LapNext]_vars

\* the braking zones of one lap
BrakeNext ==
    \/ \E is_braking \in BOOLEAN : ProcessFrame(is_braking)
    \/ FinalizeZones

SpecBrake == Init /\ [][BrakeNext]_vars

\* the collector over a recorded source: the reader, its parse tasks and
\* ReplayConnection::open
RecordedReaderNext ==
    \/ ReaderCheck
    \/ ReadFrame(NextTick, MaxVersion)
    \/ \E result \in YamlResults : YamlReturn(result)
    \/ SendFrame
    \/ ReadEndOfStream

OpenNext ==
    \/ OpenSubscribe
    \/ OpenFirstFrame
    \/ OpenTimeout

CollectorNext ==
    \/ CollectorCheck
    \/ CollectorSubscribe
    \/ CollectorSessionReceived
    \/ CollectorWaitCancelled
    \/ \E id \in SessionIds : CollectorStart(id)
    \/ CollectFrame
    \/ CollectorFinish
    \/ CollectorShutdown

CollectorSourceNext == RecordedReaderNext \/ ParseNext \/ OpenNext \/ CollectorNext

SpecCollector == Init /\ [][CollectorSourceNext]_vars

Next == CollectorNext \/ BrakeNext \/ LapNext \/ ProviderNext \/ BusNext \/ ReaderNext \/ ParseNext \/ ConnectionNext \/ Connect \/ StreamNext \/ Tick

Spec == Init /\ [][Next]_vars

\* the reader loop, its provider and the Connection's lifetime
DriverNext == ReaderNext \/ ConnectionNext

SpecDriver == Init /\ [][DriverNext]_vars

\* the reader loop over a recorded source and the frame streams handed out
\* by subscribe()
\* A recorded source keeps one session version for the whole file.
ReplayReaderNext ==
    \/ ReaderCheck
    \/ ReadCancelled
    \/ ReadFrame(NextTick, MaxVersion)
    \/ \E result \in YamlResults : YamlReturn(result)
    \/ SendFrame
    \/ ReadEndOfStream
    \/ ReadError
    \/ BackoffElapsed

FramesNext == ReplayReaderNext \/ ConnectionNext \/ StreamNext

SpecFrames == Init /\ [][FramesNext]_vars

\* a provider that never fails: every read returns a packet or the end
SteadyReaderNext ==
    \/ ReaderCheck
    \/ ReadCancelled
    \/ \E version \in Versions : ReadFrame(NextTick, version)
    \/ \E result \in YamlResults : YamlReturn(result)
    \/ SendFrame
    \/ ReadEndOfStream

\* the reader, the parse tasks it spawns and the caller of open()/connect()
SessionNext == SteadyReaderNext \/ ParseNext \/ ConnectionNext \/ Connect

SpecSession == Init /\ [][SessionNext]_vars

\* the reader over a recorded source and the Connection's lifetime; the
\* reader task is scheduled whenever it can run
TeardownNext == ReplayReaderNext \/ ConnectionNext

SpecTeardown == Init /\ [][TeardownNext]_vars /\ WF_vars(ReplayReaderNext)

\* a recorded source that never fails, read while the wall clock runs, and
\* subscriptions capped at CapHz
SteadyReplayReaderNext ==
    \/ ReaderCheck
    \/ ReadCancelled
    \/ ReadFrame(NextTick, MaxVersion)
    \/ \E result \in YamlResults : YamlReturn(result)
    \/ SendFrame
    \/ ReadEndOfStream

CappedStreamNext ==
    \/ \E s \in Subs : Subscribe(s, "CarData", Max(CapHz))
    \/ \E s \in Subs : SubLagged(s)
    \/ \E s \in Subs : SubRecv(s)
    \/ \E s \in Subs : SubClosed(s)

RateNext == SteadyReplayReaderNext \/ ConnectionNext \/ CappedStreamNext \/ Tick

SpecRate == Init /\ [][RateNext]_vars

\* a recorded source that never fails, and subscriptions whose consumer types
\* use every field strategy
AdapterStreamNext ==
    \/ \E s \in Subs, typeName \in AdapterTypeNames : Subscribe(s, typeName, Native)
    \/ \E s \in Subs : SubLagged(s)
    \/ \E s \in Subs : SubRecv(s)
    \/ \E s \in Subs : SubClosed(s)

\* a source that never fails and whose session text is not available
QuietReaderNext ==
    \/ ReaderCheck
    \/ ReadCancelled
    \/ ReadFrame(NextTick, 1)
    \/ YamlReturn("none")
    \/ SendFrame
    \/ ReadEndOfStream

AdapterNext == QuietReaderNext \/ Connect \/ DropConnection \/ AdapterStreamNext

SpecAdapter == Init /\ [][AdapterNext]_vars

(***************************************************************************)
(* Helpers of the properties.                                              *)
(***************************************************************************)
Last(seq) == seq[Len(seq)]

TicksOf(pkts) == [i \in DOMAIN pkts |-> pkts[i].tick]

Front(seq) == SubSeq(seq, 1, Len(seq) - 1)

StrictlyIncreasing(seq) ==
    \A i \in DOMAIN seq : \A j \in DOMAIN seq : i < j => seq[i] < seq[j]

IsPrefix(a, b) == Len(a) <= Len(b) /\ SubSeq(b, 1, Len(a)) = a

RECURSIVE SumSeq(_)
SumSeq(seq) == IF seq = << >> THEN 0 ELSE seq[1] + SumSeq(SubSeq(seq, 2, Len(seq)))

Occurrences(seq, x) == Cardinality({i \in DOMAIN seq : seq[i] = x})

\* the reader is suspended in an await of the loop
Suspended == pc \in {"read", "yaml", "backoff"}

(***************************************************************************)
(* C1  Cancellation is checked at every suspension point of the reader     *)
(* loop: whenever the signal is set while the loop is suspended in         *)
(* next_frame(), in session_yaml() or in the backoff sleep, the loop can   *)
(* stop there and then, without first completing that wait.                *)
(***************************************************************************)
\* the reader's next step ends the loop
StopsNow == ReaderNext /\ pc' = "stopped"

C1_CancelInterruptsEveryWait == (cancel /\ Suspended) => ENABLED StopsNow

(***************************************************************************)
(* C2  After MAX_ERRORS consecutive next_frame() errors the reader stops   *)
(* fatally and every subscriber's frame stream is closed: the frame        *)
(* channel has no sender left, so a subscriber that has drained it sees    *)
(* the end of its sequence.                                                *)
(***************************************************************************)
C2_FatalStopClosesStreams ==
    (pc = "stopped" /\ stopReason = "fatal") =>
        /\ error_count = MAX_ERRORS
        /\ FrameChannelClosed

(***************************************************************************)
(* C3  When the provider returns end-of-stream the reader stops gracefully *)
(* and the channels are closed, so no subscriber is left waiting on an     *)
(* open, silent channel.                                                   *)
(***************************************************************************)
C3_EndOfStreamClosesStreams ==
    (pc = "stopped" /\ stopReason = "graceful") => FrameChannelClosed

(***************************************************************************)
(* C4  A successful read after fewer than MAX_ERRORS consecutive errors    *)
(* keeps the loop running with the error counter back at zero, and every   *)
(* tick the provider returned is handed to the frame channel: the ticks    *)
(* sent are exactly the ticks returned, up to the packet in flight.        *)
(***************************************************************************)
PublishedAllReturned ==
    sendCalls = IF pc \in {"yaml", "send"} THEN Front(TicksOf(returned))
                                           ELSE TicksOf(returned)

C4_RecoversAfterErrors ==
    /\ [][ (error_count \in 1..(MAX_ERRORS - 1) /\ returned' # returned) =>
                (error_count' = 0 /\ pc' \in {"yaml", "send"}) ]_vars
    /\ []PublishedAllReturned

C4_Witness ==
    /\ recoveredRead
    /\ pc = "read"
    /\ error_count = 0
    /\ Len(sendCalls) >= 2
    /\ Last(sendCalls) = Last(returned).tick

(***************************************************************************)
(* C10  session_yaml is requested exactly once for every packet whose      *)
(* session_version differs from the previous packet's (the first packet    *)
(* included) and never for a packet whose version is unchanged; the        *)
(* request has returned before that packet is sent.                        *)
(***************************************************************************)
VersionDiffers(i) ==
    i = 1 \/ returned[i].session_version # returned[i - 1].session_version

C10_YamlOncePerVersionChange ==
    /\ \A i \in DOMAIN returned :
          Occurrences(yamlReqs, returned[i].tick)
              = IF VersionDiffers(i) THEN 1 ELSE 0
    /\ pc = "send" =>
          /\ last_session_version = packet.session_version
          /\ VersionDiffers(Len(returned)) => Last(yamlReqs) = packet.tick
    /\ \A i \in DOMAIN sendCalls :
          \A j \in DOMAIN returned :
              (returned[j].tick = sendCalls[i] /\ VersionDiffers(j))
                  => Occurrences(yamlReqs, sendCalls[i]) = 1

C10_Witness ==
    /\ Len(returned) = 3
    /\ Len(sendCalls) = 3
    /\ VersionDiffers(2)
    /\ ~VersionDiffers(3)
    /\ Len(yamlReqs) = 2

(***************************************************************************)
(* Subscriptions.                                                          *)
(***************************************************************************)
Streaming(s) == subState[s] \in {"stream", "ended"}

Attempted(s) == subState[s] # "none"

\* the declared type has a Required field whose variable the schema lacks
RequiredAbsent(typeName) ==
    \E i \in DOMAIN DeclaredFields(typeName) :
        /\ DeclaredFields(typeName)[i].strategy = "Critical"
        /\ DeclaredFields(typeName)[i].field_name \notin DOMAIN Schema

\* ticks stored at the positions first..(last - 1) of the frame channel
StoredTicks(first, last) == {frames[p + 1].tick : p \in first..(last - 1)}

C6_PublishNeverBlocks ==
    /\ [][ (pc = "send" /\ sendCalls' # sendCalls) =>
              /\ pc' = "check"
              /\ RxCount > 0 => (Len(frames') = Len(frames) + 1
                                 /\ Last(frames') = packet)
              /\ UNCHANGED subVars ]_vars
    /\ [](pc = "send" => ENABLED SendFrame)
    /\ [](\A s \in Subs :
            ( /\ subState[s] = "stream"
              /\ next[s] >= OldestRetained(FrameTail)
              /\ next[s] < FrameTail ) => ENABLED SubRecv(s))

\* the ring has wrapped, one subscriber lags behind it, the other is caught
\* up, and the reader is back at its next read
C6_Witness ==
    /\ FrameTail > BufferLen
    /\ pc = "read"
    /\ \E s, t \in Subs :
          /\ subState[s] = "stream" /\ next[s] < OldestRetained(FrameTail)
          /\ subState[t] = "stream" /\ next[t] = FrameTail
          /\ Len(items[t]) > BufferLen

(***************************************************************************)
(* C7  Two subscriptions to the same recorded source with the same         *)
(* consumer type yield sequences with identical content and tick order,    *)
(* whenever each subscribe call is made: of what the two have delivered,   *)
(* one is always a prefix of the other.                                    *)
(***************************************************************************)
Agree(s, t) == IsPrefix(items[s], items[t]) \/ IsPrefix(items[t], items[s])

C7_AnyTwoSubscriptionsAgree ==
    \A s, t \in Subs :
        (Streaming(s) /\ Streaming(t) /\ subType[s] = subType[t]) => Agree(s, t)

\* C7 as amended: two subscriptions made at the same point of the frame
\* stream, neither of which has been overrun, yield identical sequences; a
\* subscription only yields the frames published after it was made.
C7_SubscriptionsFromSamePointAgree ==
    \A s, t \in Subs :
        ( /\ Streaming(s) /\ Streaming(t) /\ subType[s] = subType[t]
          /\ subPos[s] = subPos[t]
          /\ lagWarned[s] = << >> /\ lagWarned[t] = << >> )
        => /\ Agree(s, t)
           /\ \A i \in DOMAIN items[s] : items[s][i] = frames[subPos[s] + i].tick

C7_Witness ==
    \E s, t \in Subs :
        /\ s # t
        /\ subState[s] = "stream" /\ subState[t] = "stream"
        /\ subPos[s] = subPos[t]
        /\ Len(items[s]) >= 2
        /\ items[s] = items[t]

(***************************************************************************)
(* C8  If a Required field's variable is absent from the schema, subscribe *)
(* fails immediately with a validation error returned to the caller,       *)
(* before any frame is decoded for that subscription.                      *)
(***************************************************************************)
C8_RequiredAbsentReturnsError ==
    \A s \in Subs :
        (Attempted(s) /\ RequiredAbsent(subType[s])) =>
            /\ subState[s] = "error"
            /\ items[s] = << >>

\* C8 as amended: subscribe returns no error value; it panics on the
\* validation error (`expect`), creating no receiver and decoding no frame
C8_RequiredAbsentPanics ==
    \A s \in Subs :
        (Attempted(s) /\ RequiredAbsent(subType[s])) =>
            /\ subState[s] = "panicked"
            /\ subPos[s] = None
            /\ items[s] = << >>
            /\ lagWarned[s] = << >>

C8_Witness ==
    \E s, t \in Subs :
        /\ subState[s] = "panicked"
        /\ RequiredAbsent(subType[s])
        /\ FrameTail > 0
        /\ items[t] # << >>

C11_SessionAvailableAtOpen ==
    (openResult = "frame" /\ Len(returned) = 1 /\ sessions # << >>)
        => sessionAtOpen # None

(***************************************************************************)
(* C12  open/connect does not return until the first frame has arrived at  *)
(* its receiver or the bounded timeout has elapsed.                        *)
(***************************************************************************)
Returned == openPc \in {"open", "dropped"}

FrameArrived == openNext # None /\ FrameTail > openNext

C13_BackoffStartsAtBase ==
    pc = "backoff" =>
        backoff = Min(BACKOFF_BASE_MS * 2 ^ (error_count - 1),
                      BACKOFF_BASE_MS * 2 ^ BACKOFF_MAX_SHIFT)

(***************************************************************************)
(* C14  Under Max(hz) two consecutively delivered items are at least 1/hz  *)
(* apart in wall-clock time, the packets published in between being        *)
(* dropped: an item delivered after another was published no earlier than  *)
(* 1/hz after that delivery, whatever the rate of the source.              *)
(***************************************************************************)
PublishedAt(tick) ==
    frameTimes[CHOOSE p \in DOMAIN frames : frames[p].tick = tick]

C15_ParseFailureOnlyLogged ==
    /\ [][ parseFailed' # parseFailed =>
              UNCHANGED << current_session, sessions, readerVars, frames >> ]_vars
    /\ [](parseFailed # {} =>
              /\ pc = "send" => ENABLED SendFrame
              /\ (pc = "read" /\ Len(returned) < MaxFrames) =>
                     ENABLED ReadFrame(NextTick, MaxVersion))

\* a later version's metadata failed to parse: the earlier session is still
\* current and all frames went out
C15_Witness ==
    /\ current_session = 1
    /\ \E task \in parseFailed : task.session_version = 2
    /\ sessions = << 1 >>
    /\ Len(sendCalls) = MaxFrames

(***************************************************************************)
(* C16  Session metadata is parsed in a detached task: the reader's step   *)
(* out of session_yaml() spawns the parse without running it, and reading  *)
(* and publishing stay possible while parses are pending.                  *)
(***************************************************************************)
C16_ReaderNeverWaitsForParse ==
    /\ [][ (pc = "yaml" /\ pc' # "yaml") =>
              /\ pc' = "send"
              /\ UNCHANGED << current_session, sessions >> ]_vars
    /\ [](parseTasks # {} =>
              /\ pc = "send" => ENABLED SendFrame
              /\ pc = "yaml" => ENABLED YamlReturn("some")
              /\ (pc = "read" /\ Len(returned) < MaxFrames) =>
                     ENABLED ReadFrame(NextTick, MaxVersion))

\* a frame read after the one that started a parse was published while that
\* parse was still pending
C16_Witness ==
    \E task \in parseTasks :
        \E i \in DOMAIN sendCalls : sendCalls[i] > task.tick

C18_StoppedIsTerminal ==
    /\ [](stopReason # "none" <=> pc = "stopped")
    /\ [][ stopReason # "none" =>
              UNCHANGED << pc, stopReason, returned, current_frame, sendCalls,
                           frames, error_count, yamlReqs >> ]_vars

\* the reader stopped fatally and the Connection was dropped afterwards or
\* meanwhile
C18_Witness ==
    /\ pc = "stopped"
    /\ stopReason = "fatal"
    /\ openPc = "dropped"
    /\ Len(sendCalls) >= 1

(***************************************************************************)
(* C19  When open() returns after the first frame was broadcast,           *)
(* current_frame() returns a frame: SyncState.current_frame is written     *)
(* before the same frame is published.                                     *)
(***************************************************************************)
C19_CurrentFrameSetBeforePublish ==
    /\ openResult = "frame" => current_frame # None
    /\ pc = "send" => current_frame = packet.tick
    /\ \A i \in DOMAIN frames :
          current_frame # None /\ frames[i].tick <= current_frame

C19_Witness ==
    /\ openPc = "open"
    /\ openResult = "frame"
    /\ FrameTail = 1
    /\ current_frame = frames[1].tick

(***************************************************************************)
(* C20  SyncState.current_frame never holds a frame older, by tick, than   *)
(* the last frame the reader loop observed: it holds exactly that frame.   *)
(***************************************************************************)
C20_CurrentFrameIsLastObserved ==
    current_frame = IF returned = << >> THEN None ELSE Last(returned).tick

C20_Witness ==
    /\ Len(returned) = MaxFrames
    /\ current_frame = Last(returned).tick
    /\ current_frame > FirstTick

(***************************************************************************)
(* FrameAdapter: field strategies, the extraction plan and decoding.       *)
(***************************************************************************)
FieldsOf(s) == DeclaredFields(subType[s])

Absent(f) == f.field_name \notin DOMAIN Schema

TypeMismatch(f) ==
    /\ f.field_name \in DOMAIN Schema
    /\ Schema[f.field_name].data_type # f.field_type

\* a Required field whose on-wire type is not the declared one
RequiredMismatch(fields) ==
    \E i \in DOMAIN fields : fields[i].strategy = "Critical" /\ TypeMismatch(fields[i])

\* the value a field without a usable variable decodes to
FallbackOf(f) ==
    CASE f.strategy = "Optional" -> None
      [] f.strategy = "WithDefault" -> f.default_expr
      [] OTHER -> TypeDefaultValue

\* C21: a subscription whose type has an Optional field with no variable in
\* the schema validates, every instance it decodes has that field none, and
\* the field never makes a decode fault
C21_OptionalAbsentDecodesNone ==
    \A s \in Subs : \A i \in DOMAIN FieldsOf(s) :
        (/\ Attempted(s)
         /\ FieldsOf(s)[i].strategy = "Optional"
         /\ Absent(FieldsOf(s)[i]))
        => /\ RequiredAbsent(subType[s]) \/ subState[s] # "panicked"
           /\ \A k \in DOMAIN decoded[s] : decoded[s][k][i] = None
           /\ subState[s] = "faulted" => RequiredMismatch(FieldsOf(s))

C21_Witness ==
    \E s \in Subs :
        /\ subType[s] = "Lenient"
        /\ FieldsOf(s)[2].strategy = "Optional" /\ Absent(FieldsOf(s)[2])
        /\ Len(decoded[s]) >= 2
        /\ decoded[s][2][2] = None

\* C22: a field that is not Required and whose on-wire type is not the
\* declared one decodes to its default (none for Optional) on every frame
\* and never faults, its warning is logged at most once, and a decode faults
\* only for a Required field's mismatch
C22_MismatchFallsBackWarnsOnce ==
    /\ \A s \in Subs : \A i \in DOMAIN FieldsOf(s) :
          (/\ Attempted(s)
           /\ FieldsOf(s)[i].strategy \in {"Optional", "WithDefault", "TypeDefault"}
           /\ TypeMismatch(FieldsOf(s)[i]))
          => \A k \in DOMAIN decoded[s] :
                /\ decoded[s][k][i] = FallbackOf(FieldsOf(s)[i])
                /\ << subType[s], i >> \in warned
    /\ \A s \in Subs :
          /\ subState[s] = "faulted" => RequiredMismatch(FieldsOf(s))
          /\ (Attempted(s) /\ RequiredMismatch(FieldsOf(s))) => decoded[s] = << >>
    /\ \A k \in DOMAIN warnLog : Occurrences(warnLog, warnLog[k]) = 1

C22_Witness ==
    \E s, t \in Subs :
        /\ subType[s] = "Lenient" /\ Len(decoded[s]) >= 2
        /\ decoded[s][2][3] = None
        /\ decoded[s][2][4] = MissingValue
        /\ decoded[s][2][5] = TypeDefaultValue
        /\ Len(warnLog) = 3
        /\ subType[t] = "Strict" /\ subState[t] = "faulted"

\* C23: a subscription whose type has a non-optional field that carries only
\* #[field_name] and whose variable is missing fails validation
C23_FieldNameOnlyIsRequired ==
    \A s \in Subs : \A i \in DOMAIN FieldsOf(s) :
        (/\ Attempted(s)
         /\ FieldsOf(s)[i].strategy = "TypeDefault"
         /\ Absent(FieldsOf(s)[i]))
        => subState[s] = "panicked"

\* C24: subscribe() validates exactly once, the plan has one entry per
\* declared field in declaration order, and every adapt() of the stream is
\* given that same plan
C24_ValidatedOncePlanFixed ==
    \A s \in Subs :
        /\ validateCalls[s] = IF Attempted(s) THEN 1 ELSE 0
        /\ (Attempted(s) /\ subState[s] # "panicked")
           => /\ Len(subPlan[s]) = Len(FieldsOf(s))
              /\ \A i \in DOMAIN FieldsOf(s) :
                    subPlan[s][i].name = FieldsOf(s)[i].field_name
              /\ \A k \in DOMAIN planUsed[s] : planUsed[s][k] = subPlan[s]

C24_Witness ==
    \E s \in Subs :
        /\ subType[s] = "Lenient"
        /\ validateCalls[s] = 1
        /\ Len(subPlan[s]) = 5
        /\ Len(planUsed[s]) >= 2
        /\ Len(decoded[s]) >= 2

\* C25: decoding a frame never resolves a field by its name, whatever the
\* field's strategy
C25_NoLookupByName ==
    \A s \in Subs : nameLookups[s] = 0

(***************************************************************************)
(* The reader task is the only caller of its Provider.                     *)
(***************************************************************************)
\* C28: the reader loop has at most one Provider call outstanding: one
\* next_frame() exactly while it waits in the select!, one session_yaml()
\* exactly while it awaits the session text, and never both
C28_OneProviderCallAtATime ==
    /\ inFlight.next_frame + inFlight.session_yaml <= 1
    /\ inFlight.next_frame = IF pc = "read" THEN 1 ELSE 0
    /\ inFlight.session_yaml = IF pc = "yaml" THEN 1 ELSE 0

C28_Witness ==
    /\ pc = "yaml"
    /\ inFlight.session_yaml = 1
    /\ inFlight.next_frame = 0
    /\ Len(returned) >= 2
    /\ error_count = 0 /\ recoveredRead

(***************************************************************************)
(* AcceleratedReplayProvider: speed, pacing, sequential replay.            *)
(***************************************************************************)
Constructed == provPc # "none"

FileReplayed ==
    /\ Constructed /\ provPc = "idle"
    /\ total_frames > 0
    /\ reader_current_frame = total_frames

\* C26: the provider's speed is the requested speed clamped to [0.1, 100.0]
\* for as long as the provider exists, its pacing interval is the native
\* interval divided by that speed, and a replayed file of duration D took
\* D / speed of wall-clock time, to within one pacing interval
C26_SpeedClampedAndPaced ==
    Constructed =>
        /\ speed >= SPEED_MIN_TENTHS /\ speed <= SPEED_MAX_TENTHS
        /\ requested < SPEED_MIN_TENTHS => speed = SPEED_MIN_TENTHS
        /\ requested > SPEED_MAX_TENTHS => speed = SPEED_MAX_TENTHS
        /\ (requested >= SPEED_MIN_TENTHS /\ requested <= SPEED_MAX_TENTHS)
           => speed = requested
        /\ frame_interval * TickRateHz * speed <= 10 * MICROS
        /\ (frame_interval + 1) * TickRateHz * speed > 10 * MICROS
        /\ FileReplayed =>
              /\ provClock * TickRateHz * speed <= total_frames * 10 * MICROS
              /\ (provClock + frame_interval + total_frames) * TickRateHz * speed
                    >= total_frames * 10 * MICROS

C26_Witness ==
    /\ FileReplayed
    /\ requested > SPEED_MAX_TENTHS /\ speed = SPEED_MAX_TENTHS
    /\ total_frames >= 3
    /\ frame_interval > 0
    /\ provClock = (total_frames - 1) * frame_interval

\* C27: the k-th next_frame() call returns the k-th recorded frame while
\* there is one, and end-of-stream on every call after the last frame
C27_SequentialThenEndOfStream ==
    \A k \in DOMAIN results :
        results[k] = IF k <= total_frames THEN k ELSE None

C27_Witness ==
    /\ total_frames >= 2
    /\ Len(results) = total_frames + MaxExtraCalls
    /\ results[total_frames] = total_frames
    /\ results[total_frames + 1] = None
    /\ results[total_frames + 2] = None

(***************************************************************************)
(* EventBus: shutdown and dispatch.                                        *)
(***************************************************************************)
\* C29: once shutdown() has been called, the loop stops the next time it
\* waits in its select!, whatever it was doing when the call was made
C29_ShutdownStopsLoop ==
    (shutdownCalls > 0 /\ busPc = "select") => ENABLED LoopShutdown

CaughtUp ==
    /\ busPc = "select"
    /\ busNext = Len(busLog)
    /\ syncQueue = << >>

\* C30: when the running loop has nothing left to receive, every handler
\* has been given every published event exactly once
C30_EveryEventDispatchedOnce ==
    CaughtUp => \A h \in Handlers : handled[h] = published

\* C31: every handler is given every event the loop dispatched, also the
\* events for which a handler returned an error and the events after them,
\* and the loop stops only at a shutdown
C31_HandlerErrorIsolated ==
    /\ \A h \in Handlers :
          /\ Len(handled[h]) = Len(handlerErrors)
          /\ \A k \in DOMAIN handlerErrors : handled[h][k] = dispatched[k]
    /\ busPc = "stopped" => shutdownCalls > 0

C31_Witness ==
    \E k \in DOMAIN handlerErrors :
        /\ handlerErrors[k] # {}
        /\ k < Len(handlerErrors)
        /\ \A h \in Handlers :
              /\ handled[h][k] = dispatched[k]
              /\ handled[h][k + 1] = dispatched[k + 1]

\* C37: when run() has returned, every event that was published before the
\* first shutdown() call has been given to every handler
C37_PublishedBeforeShutdownDispatched ==
    busPc = "stopped" =>
        \A i \in 1..shutdownAt : \A h \in Handlers :
            \E k \in DOMAIN handled[h] : handled[h][k] = published[i]

(***************************************************************************)
(* LapHandler: published laps.                                             *)
(***************************************************************************)
\* the frames received with lap number n, in arrival order
RECURSIVE FramesOfLap(_, _)
FramesOfLap(seq, n) ==
    IF seq = << >> THEN << >>
    ELSE IF Head(seq).lap_number = n
         THEN << Head(seq) >> \o FramesOfLap(Tail(seq), n)
         ELSE FramesOfLap(Tail(seq), n)

\* one session, started before the first frame, and lap numbers that step
\* through consecutive laps from lap 1
ConsecutiveLapsOfOneSession ==
    /\ sessionStarts = 1
    /\ arrivals # << >>
    /\ arrivals[1].lap_number = 1
    /\ \A i \in DOMAIN arrivals :
          /\ arrivals[i].epoch = 1
          /\ i > 1 => arrivals[i].lap_number \in
                         {arrivals[i - 1].lap_number, arrivals[i - 1].lap_number + 1}

\* C32: for frames of one session whose lap number steps through the laps
\* from lap 1, the handler has published one sequence per completed lap, in
\* lap order, each holding exactly the frames received with that lap number
\* in arrival order
C32_OneSequencePerCompletedLap ==
    ConsecutiveLapsOfOneSession =>
        /\ Len(lapEvents) = Last(arrivals).lap_number - 1
        /\ \A n \in DOMAIN lapEvents : lapEvents[n].frames = FramesOfLap(arrivals, n)
        /\ lapErrors = << >>

C32_Witness ==
    /\ ConsecutiveLapsOfOneSession
    /\ Len(lapEvents) = 2
    /\ Len(lapEvents[2].frames) >= 2
    /\ Last(arrivals).lap_number = 3

\* C33: every published lap carries the session of the latest SessionStart
\* and holds only frames received after that SessionStart
C33_SessionStartDiscardsBuffer ==
    \A n \in DOMAIN lapEvents :
        /\ lapEvents[n].session = lapEvents[n].epoch
        /\ \A i \in DOMAIN lapEvents[n].frames :
              lapEvents[n].frames[i].epoch = lapEvents[n].epoch

C33_Witness ==
    /\ sessionStarts = 2
    /\ \E i \in DOMAIN arrivals :
          /\ arrivals[i].epoch = 1
          /\ arrivals[i].lap_number = 1
          /\ ~arrivals[i].low
    /\ \E n \in DOMAIN lapEvents :
          /\ lapEvents[n].epoch = 2
          /\ lapEvents[n].session = 2
          /\ lapEvents[n].frames # << >>

\* C39: after a frame for which the handler reported the missing session
\* info, the next frame of the same lap is buffered and raises no error
C39_RecoversAfterMissingSession ==
    \A k \in DOMAIN lapErrors : \A i \in DOMAIN arrivals :
        (/\ i > 1
         /\ arrivals[i - 1].id = lapErrors[k]
         /\ arrivals[i].lap_number = arrivals[i - 1].lap_number
         /\ arrivals[i].epoch = arrivals[i - 1].epoch)
        => /\ \A j \in DOMAIN lapErrors : lapErrors[j] # arrivals[i].id

(***************************************************************************)
(* Braking zones: duration.                                                *)
(***************************************************************************)
\* C34: a braking zone that ended inside the lap lasts from the first
\* braking frame to the frame at which the brake was released
C34_DurationToReleaseFrame ==
    \A k \in DOMAIN zones :
        zones[k].released # None =>
            zones[k].metrics.braking_duration =
                Timestamp(zones[k].released) - Timestamp(zones[k].metrics.start_idx)

(***************************************************************************)
(* Session info: order of the parse tasks, and fetch errors.               *)
(***************************************************************************)
\* the provider's session_version only grows
VersionsGrow(packets) ==
    \A i, j \in DOMAIN packets :
        i < j => packets[i].session_version <= packets[j].session_version

\* C35: once the info of a newer session version has been written and
\* published, the info of an older version is not written or published
C35_SessionInfoNeverRegresses ==
    VersionsGrow(returned) =>
        \A i, j \in DOMAIN sessions : i < j => sessions[i] <= sessions[j]

\* C38: when session_yaml returned Err for a version, the fetch for that
\* version is attempted again on one of the later frames of that version
C38_FetchRetriedAfterError ==
    pc = "stopped" =>
        \A i \in DOMAIN returned :
            (/\ returned[i].tick \in fetchErrors
             /\ \E j \in DOMAIN returned :
                   j > i /\ returned[j].session_version = returned[i].session_version)
            => \E j \in DOMAIN returned, k \in DOMAIN yamlReqs :
                   /\ j > i
                   /\ returned[j].session_version = returned[i].session_version
                   /\ yamlReqs[k] = returned[j].tick

(***************************************************************************)
(* The collector: session info and the events of a session.                *)
(***************************************************************************)
\* C36: while the collector waits for session info that the source holds,
\* that session is still to come on its stream, so the wait returns it
C36_WaitSeesPublishedSession ==
    (collectorPc = "wait" /\ current_session # None) =>
        session_stream <= Len(sessions)

\* C40: every SessionEnd the collector publishes comes after a SessionStart
\* with the same session id
C40_SessionEndAfterSessionStart ==
    \A k \in DOMAIN collectorEvents :
        collectorEvents[k].type = "SessionEnd" =>
            \E j \in 1..(k - 1) :
                /\ collectorEvents[j].type = "SessionStart"
                /\ collectorEvents[j].session_id = collectorEvents[k].session_id

====
